---------------------------- MODULE Spec2Model ----------------------------
(***************************************************************************)
(* Model of main.py: the record validator (class Entry, class Validator),  *)
(* the error summary (show_summary), the valid-records dump (save_in_json) *)
(* and the top-level script that chains them.                              *)
(*                                                                         *)
(* A Python str is a sequence of Unicode code points (naturals).  A JSON   *)
(* value is [kind, chars]: kind "str" with its code points, or kind "null" *)
(* (Python None, what json.load gives for null).  A call either returns a  *)
(* value or raises: [raised |-> "none", val |-> v] or                      *)
(* [raised |-> <exception name>, val |-> FALSE].                           *)
(***************************************************************************)
EXTENDS Integers, Sequences, FiniteSets, TLC

VARIABLES
    pc,                \* position of the top-level script / of the call being made
    data,              \* json.load(...): the input batch, a list of dicts
    ei,                \* Validator.__init__: number of dicts its loop has taken
    entries,           \* Validator.entries
    illegal_entries,   \* parse: illegal_entries
    legal_entries,     \* parse: legal_entries
    idx,               \* parse: number of entries the for loop has taken
    illkeys,           \* parse: illkeys of the last iteration
    result,            \* show_summary: the parameter result
    ri,                \* show_summary: index of the outer loop (for i in result)
    rj,                \* show_summary: index of the inner loop (for j in i)
    all_errors_count,  \* show_summary: all_errors_count
    errors_count,      \* show_summary: errors_count
    summary_out,       \* what show_summary printed / wrote, <<>> before it did
    dump_out,          \* what save_in_json wrote, <<>> before it did
    raised,            \* the exception that ended the run, "none" when none did
    arg,               \* argument of a single validator call
    ret                \* its result

vars == <<pc, data, ei, entries, illegal_entries, legal_entries, idx, illkeys,
          result, ri, rj, all_errors_count, errors_count, summary_out,
          dump_out, raised, arg, ret>>

----------------------------------------------------------------------------
(* Bounds of the checked instances *)

\* longest input batch
MaxBatch == 2
\* longest list of failure reasons handed to show_summary, and longest reason list
MaxReasons == 2
\* longest SNILS string
MaxSnilsLen == 12
\* longest work_experience string
MaxWorkLen == 3
\* longest freely chosen height string
MaxHeightLen == 4
\* longest run of padding digits in a height string next to a bound
MaxPad == 17

----------------------------------------------------------------------------
(* Characters *)

Str(s) == [kind |-> "str", chars |-> s]
None == [kind |-> "null", chars |-> <<>>]

Return(v) == [raised |-> "none", val |-> v]
Raise(e) == [raised |-> e, val |-> FALSE]

\* First code point of every block of ten decimal digits (Unicode category Nd).
DigitStarts ==
    {48, 1632, 1776, 1984, 2406, 2534, 2662, 2790, 2918, 3046, 3174, 3302,
     3430, 3558, 3664, 3792, 3872, 4160, 4240, 6112, 6160, 6470, 6608, 6784,
     6800, 6992, 7088, 7232, 7248, 42528, 43216, 43264, 43472, 43504, 43600,
     44016, 65296, 66720, 68912, 69734, 69872, 69942, 70096, 70384, 70736,
     70864, 71248, 71360, 71472, 71904, 72016, 72784, 73040, 73120, 92768,
     92864, 93008, 120782, 120792, 120802, 120812, 120822, 123200, 123632,
     125264, 130032}

\* \d of a str pattern: any Unicode decimal digit
IsDigit(c) == c \in 48..57 \/ (c > 127 /\ \E z \in DigitStarts : c \in z..(z + 9))

DigitValue(c) == IF c \in 48..57 THEN c - 48
                 ELSE c - (CHOOSE z \in DigitStarts : c \in z..(z + 9))

\* \s of a str pattern: any Unicode whitespace
IsSpace(c) ==
    c \in {9, 10, 11, 12, 13, 28, 29, 30, 31, 32, 133, 160, 5760, 8232, 8233,
           8239, 8287, 12288} \/ c \in 8192..8202

\* [а-яА-Я]
IsCyrillic(c) == c \in 1072..1103 \/ c \in 1040..1071

\* [a-zA-Z]
IsLatin(c) == c \in 97..122 \/ c \in 65..90

\* $ : at the end of the string, or just before a newline that ends it
AtEnd(s, n) == Len(s) = n \/ (Len(s) = n + 1 /\ s[n + 1] = 10)

----------------------------------------------------------------------------
(* re.match on the fixed-length patterns: a pattern is a sequence of literal
   code points, with 0 standing for \d *)

MatchFixed(pat, s) ==
    /\ Len(s) >= Len(pat)
    /\ \A i \in 1..Len(pat) : IF pat[i] = 0 THEN IsDigit(s[i]) ELSE s[i] = pat[i]
    /\ AtEnd(s, Len(pat))

\* '^(\+7[\-][(]\d{3}[)][\-]\d{3}[\-]\d{2}[\-]\d{2})$'
TelephonePattern == <<43, 55, 45, 40, 0, 0, 0, 41, 45, 0, 0, 0, 45, 0, 0, 45, 0, 0>>

\* '^\\d{11}$'
SnilsPattern == <<0, 0, 0, 0, 0, 0, 0, 0, 0, 0, 0>>

\* '^\\d{2} \\d{2}$'
PassportPattern == <<0, 0, 32, 0, 0>>

\* [а-яА-Я-\s]
InAddressClass(c) == IsCyrillic(c) \/ c = 45 \/ IsSpace(c)

\* [а-яА-Я-\s\.]
InUniversityClass(c) == IsCyrillic(c) \/ c = 45 \/ IsSpace(c) \/ c = 46

\* [a-zA-Zа-яА-Я -]
InDegreeClass(c) == IsLatin(c) \/ IsCyrillic(c) \/ c = 32 \/ c = 45

\* '^[а-яА-Я-\s]+\d+$'
MatchAddress(s) ==
    \E k \in 1..Len(s) :
        /\ \A i \in 1..k : InAddressClass(s[i])
        /\ \E m \in (k + 1)..Len(s) : AtEnd(s, m) /\ \A i \in (k + 1)..m : IsDigit(s[i])

\* '^[а-яА-Я-\s\.]+$'
MatchUniversity(s) ==
    \E m \in 1..Len(s) : AtEnd(s, m) /\ \A i \in 1..m : InUniversityClass(s[i])

\* '^[a-zA-Zа-яА-Я -]+$'
MatchDegree(s) ==
    \E m \in 1..Len(s) : AtEnd(s, m) /\ \A i \in 1..m : InDegreeClass(s[i])

MatchTelephone(s) == MatchFixed(TelephonePattern, s)

MatchSnils(s) == MatchFixed(SnilsPattern, s)

MatchPassport(s) == MatchFixed(PassportPattern, s)

\* if re.match(pattern, x): return True / return False, for matched the
\* outcome of the match on a str x; re.match raises TypeError unless x is a str
re_match(x, matched) ==
    IF x.kind # "str" THEN Raise("TypeError") ELSE Return(matched)

----------------------------------------------------------------------------
(* int(str) and float(str) *)

\* the whitespace int() and float() strip: ASCII whitespace, and every
\* non-ASCII Unicode space (28..31 are \s but are not stripped)
IsStripSpace(c) == IsSpace(c) /\ c \notin 28..31

Strip(s) ==
    LET keep == {i \in 1..Len(s) : ~IsStripSpace(s[i])}
    IN  IF keep = {} THEN <<>>
        ELSE SubSeq(s, CHOOSE i \in keep : \A j \in keep : i <= j,
                       CHOOSE i \in keep : \A j \in keep : i >= j)

IsSign(c) == c = 43 \/ c = 45

Unsigned(t) == IF t # <<>> /\ IsSign(t[1]) THEN Tail(t) ELSE t

IsNegative(t) == t # <<>> /\ t[1] = 45

\* digits with single underscores between them: nonempty, begins and ends
\* with a digit
IsDigitGroup(r) ==
    /\ r # <<>>
    /\ IsDigit(r[1])
    /\ IsDigit(r[Len(r)])
    /\ \A i \in 1..Len(r) : IsDigit(r[i]) \/ r[i] = 95
    /\ \A i \in 1..(Len(r) - 1) : ~(r[i] = 95 /\ r[i + 1] = 95)

RECURSIVE GroupValue(_)
GroupValue(r) ==
    IF r = <<>> THEN 0
    ELSE LET front == SubSeq(r, 1, Len(r) - 1)
             last == r[Len(r)]
         IN  IF last = 95 THEN GroupValue(front)
             ELSE GroupValue(front) * 10 + DigitValue(last)

RECURSIVE GroupDigits(_)
GroupDigits(r) ==
    IF r = <<>> THEN <<>>
    ELSE IF r[1] = 95 THEN GroupDigits(Tail(r))
    ELSE <<DigitValue(r[1])>> \o GroupDigits(Tail(r))

\* int(x): TypeError for None, ValueError for a str that is no integer literal
int(x) ==
    IF x.kind # "str" THEN Raise("TypeError")
    ELSE LET t == Strip(x.chars)
             r == Unsigned(t)
         IN  IF ~IsDigitGroup(r) THEN Raise("ValueError")
             ELSE Return(IF IsNegative(t) THEN 0 - GroupValue(r) ELSE GroupValue(r))

\* float(x) on a str free of the letters of an exponent, of inf and of nan:
\* the decimal read, [neg, int, frac] with frac the digits after the point.
\* TypeError for None, ValueError for a str that is no decimal literal.
DotsOf(r) == {i \in 1..Len(r) : r[i] = 46}

float(x) ==
    IF x.kind # "str" THEN Raise("TypeError")
    ELSE LET t == Strip(x.chars)
             r == Unsigned(t)
             dots == DotsOf(r)
         IN  IF dots = {}
             THEN IF IsDigitGroup(r)
                  THEN Return([neg |-> IsNegative(t), int |-> GroupValue(r), frac |-> <<>>])
                  ELSE Raise("ValueError")
             ELSE LET d == CHOOSE i \in dots : TRUE
                      ip == SubSeq(r, 1, d - 1)
                      fp == SubSeq(r, d + 1, Len(r))
                  IN  IF /\ Cardinality(dots) = 1
                         /\ (ip = <<>> \/ IsDigitGroup(ip))
                         /\ (fp = <<>> \/ IsDigitGroup(fp))
                         /\ ~(ip = <<>> /\ fp = <<>>)
                      THEN Return([neg |-> IsNegative(t), int |-> GroupValue(ip),
                                   frac |-> GroupDigits(fp)])
                      ELSE Raise("ValueError")

\* digits after the point compared as decimal fractions: -1, 0 or 1
RECURSIVE FracCmp(_, _)
FracCmp(f, g) ==
    IF f = <<>> /\ g = <<>> THEN 0
    ELSE LET a == IF f = <<>> THEN 0 ELSE f[1]
             b == IF g = <<>> THEN 0 ELSE g[1]
         IN  IF a < b THEN -1
             ELSE IF a > b THEN 1
             ELSE FracCmp(IF f = <<>> THEN <<>> ELSE Tail(f),
                          IF g = <<>> THEN <<>> ELSE Tail(g))

\* a non-negative decimal d compared with int.frac
DecCmp(d, int_, frac_) ==
    IF d.int < int_ THEN -1
    ELSE IF d.int > int_ THEN 1
    ELSE FracCmp(d.frac, frac_)

\* float() rounds the decimal to the nearest double, ties to even.  The
\* literal 1.20 is the double 0x1.3333333333333p+0; the decimals that round
\* above it are those from the midpoint to its successor on (the successor's
\* mantissa is even, so the midpoint rounds up):
\* 1.20000000000000006661338147750939242541790008544921875
MidAbove120 ==
    <<2, 0, 0, 0, 0, 0, 0, 0, 0, 0, 0, 0, 0, 0, 0, 0, 6, 6, 6, 1, 3, 3, 8, 1, 4, 7,
      7, 5, 0, 9, 3, 9, 2, 4, 2, 5, 4, 1, 7, 9, 0, 0, 0, 8, 5, 4, 4, 9, 2, 1, 8, 7,
      5>>

\* The literal 2.10 is the double 0x1.0cccccccccccdp+1; the decimals that
\* round below it are those up to the midpoint to its predecessor (the
\* predecessor's mantissa is even, so the midpoint rounds down):
\* 2.0999999999999998667732370449812151491641998291015625
MidBelow210 ==
    <<0, 9, 9, 9, 9, 9, 9, 9, 9, 9, 9, 9, 9, 9, 9, 8, 6, 6, 7, 7, 3, 2, 3, 7, 0, 4,
      4, 9, 8, 1, 2, 1, 5, 1, 4, 9, 1, 6, 4, 1, 9, 9, 8, 2, 9, 1, 0, 1, 5, 6, 2, 5>>

\* fheight > 1.20, for fheight = float(the decimal d)
fheight_gt_1_20(d) == ~d.neg /\ DecCmp(d, 1, MidAbove120) >= 0

\* fheight < 2.10, for fheight = float(the decimal d)
fheight_lt_2_10(d) == d.neg \/ DecCmp(d, 2, MidBelow210) <= 0

----------------------------------------------------------------------------
(* The nine validators *)

check_telephone(telephone) == re_match(telephone, MatchTelephone(telephone.chars))

check_snils(snils) == re_match(snils, MatchSnils(snils.chars))

check_passport(passport) == re_match(passport, MatchPassport(passport.chars))

check_height_unguarded(height) ==
    LET f == float(height)
    IN  IF f.raised # "none" THEN Raise(f.raised)
        ELSE Return(fheight_gt_1_20(f.val) /\ fheight_lt_2_10(f.val))

check_height(height) ==
    LET f == float(height)
    IN  IF f.raised = "ValueError" THEN Return(FALSE)
        ELSE IF f.raised # "none" THEN Raise(f.raised)
        ELSE Return(fheight_gt_1_20(f.val) /\ fheight_lt_2_10(f.val))

check_work_experience_from_3(work_experience) ==
    LET n == int(work_experience)
    IN  IF n.raised = "ValueError" THEN Return(FALSE)
        ELSE IF n.raised # "none" THEN Raise(n.raised)
        ELSE Return(n.val > 2 /\ n.val < 20)

check_work_experience(work_experience) ==
    LET n == int(work_experience)
    IN  IF n.raised = "ValueError" THEN Return(FALSE)
        ELSE IF n.raised # "none" THEN Raise(n.raised)
        ELSE Return(n.val >= 2 /\ n.val < 20)

check_address(address) == re_match(address, MatchAddress(address.chars))

check_university(university) == re_match(university, MatchUniversity(university.chars))

check_degree(degree) == re_match(degree, MatchDegree(degree.chars))

check_worldview(worldview) == re_match(worldview, MatchDegree(worldview.chars))

----------------------------------------------------------------------------
(* Records *)

Fields == {"telephone", "height", "snils", "passport_series", "university",
           "work_experience", "academic_degree", "worldview", "address"}

\* the order Entry.__init__ reads the keys in; errors_count and the blocks
\* of save_in_json list the fields in the same order
FieldOrder == <<"telephone", "height", "snils", "passport_series", "university",
                "work_experience", "academic_degree", "worldview", "address">>

\* the order parse_entry checks the fields in
CheckOrder == <<"telephone", "snils", "passport_series", "height",
                "work_experience", "address", "university", "academic_degree",
                "worldview">>

\* Entry(dic): dic[key] raises KeyError for a key dic lacks.  The Entry holds
\* the nine values read (curdict is dic itself, of which nothing else is read).
Entry(dic) ==
    IF Fields \subseteq DOMAIN dic
    THEN Return([f \in Fields |-> dic[f]])
    ELSE Raise("KeyError")

\* self.entries.append(Entry(i)), a defective record left out instead
append_entry_skipping(es, dic) ==
    IF Entry(dic).raised = "none" THEN Return(Append(es, Entry(dic).val)) ELSE Return(es)

\* self.entries.append(Entry(i))
append_entry(es, dic) ==
    IF Entry(dic).raised = "none" THEN Return(Append(es, Entry(dic).val))
    ELSE Raise(Entry(dic).raised)

\* the validator parse_entry calls for a field
check(f, v) ==
    CASE f = "telephone" -> check_telephone(v)
      [] f = "snils" -> check_snils(v)
      [] f = "passport_series" -> check_passport(v)
      [] f = "height" -> check_height(v)
      [] f = "work_experience" -> check_work_experience(v)
      [] f = "address" -> check_address(v)
      [] f = "university" -> check_university(v)
      [] f = "academic_degree" -> check_degree(v)
      [] f = "worldview" -> check_worldview(v)

\* parse_entry with every elif an if: each failing field is appended
RECURSIVE parse_entry_every(_, _)
parse_entry_every(entry, k) ==
    IF k > Len(CheckOrder) THEN Return(<<>>)
    ELSE LET c == check(CheckOrder[k], entry[CheckOrder[k]])
             rest == parse_entry_every(entry, k + 1)
         IN  IF c.raised # "none" THEN Raise(c.raised)
             ELSE IF rest.raised # "none" THEN rest
             ELSE IF c.val THEN rest
             ELSE Return(<<CheckOrder[k]>> \o rest.val)

parse_entry_all(entry) == parse_entry_every(entry, 1)

\* the if / elif chain of parse_entry from its k-th branch on: a validator
\* that raises ends the call, one that returns False ends the chain
RECURSIVE parse_entry_from(_, _)
parse_entry_from(entry, k) ==
    IF k > Len(CheckOrder) THEN Return(<<>>)
    ELSE LET c == check(CheckOrder[k], entry[CheckOrder[k]])
         IN  IF c.raised # "none" THEN Raise(c.raised)
             ELSE IF ~c.val THEN Return(<<CheckOrder[k]>>)
             ELSE parse_entry_from(entry, k + 1)

parse_entry(entry) == parse_entry_from(entry, 1)

\* the body of parse's loop without its else: the entry is appended to
\* legal_entries whatever illkeys is
parse_append_no_else(illegal, legal, keys, i) ==
    [illegal |-> IF Len(keys) # 0 THEN Append(illegal, keys) ELSE illegal,
     legal |-> Append(legal, i)]

\* the body of parse's loop inserting at the front
parse_append_front(illegal, legal, keys, i) ==
    IF Len(keys) # 0
    THEN [illegal |-> <<keys>> \o illegal, legal |-> legal]
    ELSE [illegal |-> illegal, legal |-> <<i>> \o legal]

\* the body of parse's loop, after illkeys = self.parse_entry(i)
parse_append(illegal, legal, keys, i) ==
    IF Len(keys) # 0
    THEN [illegal |-> Append(illegal, keys), legal |-> legal]
    ELSE [illegal |-> illegal, legal |-> Append(legal, i)]

\* errors_count as show_summary creates it
ZeroCounts == [f \in Fields |-> 0]

\* the body of show_summary's inner loop with = 1 for the first += 1
tally_assign_count(counts, total, j) ==
    [counts |-> [counts EXCEPT ![j] = 1], total |-> total + 1]

\* the body of show_summary's inner loop with = 1 for the second += 1
tally_assign_total(counts, total, j) ==
    [counts |-> [counts EXCEPT ![j] = counts[j] + 1], total |-> 1]

\* the body of show_summary's inner loop, for a j that is a key of errors_count
tally(counts, total, j) ==
    [counts |-> [counts EXCEPT ![j] = counts[j] + 1], total |-> total + 1]

\* what show_summary prints or writes: the total, then a line per field
SummaryText(total, counts) ==
    [written |-> TRUE, total |-> total,
     lines |-> [k \in 1..Len(FieldOrder) |->
                   [key |-> FieldOrder[k], value |-> counts[FieldOrder[k]]]]]

\* the block save_in_json writes for an entry: height and work_experience
\* are written bare, the other fields between double quotes
Block(e) ==
    [k \in 1..Len(FieldOrder) |->
        [key |-> FieldOrder[k], text |-> e[FieldOrder[k]].chars,
         quoted |-> FieldOrder[k] \notin {"height", "work_experience"}]]

NotWritten == [written |-> FALSE]

----------------------------------------------------------------------------
(* Input batches *)

\* "+7-(123)-456-78-90", 1.75, "12345678901", "12 34", "МГУ", 5, "PhD",
\* "atheism", "Ленина 10"
ValidRecord ==
    [telephone |-> Str(<<43, 55, 45, 40, 49, 50, 51, 41, 45, 52, 53, 54, 45, 55, 56, 45, 57, 48>>),
     height |-> Str(<<49, 46, 55, 53>>),
     snils |-> Str(<<49, 50, 51, 52, 53, 54, 55, 56, 57, 48, 49>>),
     passport_series |-> Str(<<49, 50, 32, 51, 52>>),
     university |-> Str(<<1052, 1043, 1059>>),
     work_experience |-> Str(<<53>>),
     academic_degree |-> Str(<<80, 104, 68>>),
     worldview |-> Str(<<97, 116, 104, 101, 105, 115, 109>>),
     address |-> Str(<<1051, 1077, 1085, 1080, 1085, 1072, 32, 49, 48>>)]

\* "+71234567890", "1,75", "1234567890", "1234", "MSU", "5.0", "PhD2",
\* "atheism!", "Lenina 10"
InvalidValue ==
    [telephone |-> Str(<<43, 55, 49, 50, 51, 52, 53, 54, 55, 56, 57, 48>>),
     height |-> Str(<<49, 44, 55, 53>>),
     snils |-> Str(<<49, 50, 51, 52, 53, 54, 55, 56, 57, 48>>),
     passport_series |-> Str(<<49, 50, 51, 52>>),
     university |-> Str(<<77, 83, 85>>),
     work_experience |-> Str(<<53, 46, 48>>),
     academic_degree |-> Str(<<80, 104, 68, 50>>),
     worldview |-> Str(<<97, 116, 104, 101, 105, 115, 109, 33>>),
     address |-> Str(<<76, 101, 110, 105, 110, 97, 32, 49, 48>>)]

\* "+7-(987)-654-32-10", 2.09, "10987654321", "43 21", "М.Г-У", 19,
\* "к-т наук", "vera", "Мира-Пр 7"
OtherValidRecord ==
    [telephone |-> Str(<<43, 55, 45, 40, 57, 56, 55, 41, 45, 54, 53, 52, 45, 51, 50, 45, 49, 48>>),
     height |-> Str(<<50, 46, 48, 57>>),
     snils |-> Str(<<49, 48, 57, 56, 55, 54, 53, 52, 51, 50, 49>>),
     passport_series |-> Str(<<52, 51, 32, 50, 49>>),
     university |-> Str(<<1052, 46, 1043, 45, 1059>>),
     work_experience |-> Str(<<49, 57>>),
     academic_degree |-> Str(<<1082, 45, 1090, 32, 1085, 1072, 1091, 1082>>),
     worldview |-> Str(<<118, 101, 114, 97>>),
     address |-> Str(<<1052, 1080, 1088, 1072, 45, 1055, 1088, 32, 55>>)]

\* the sets of fields made invalid together: none, one, the first two
\* checked, two pairs that FieldOrder and CheckOrder list in opposite orders,
\* the first and the last checked, all
InvalidSets ==
    {{}} \cup {{f} : f \in Fields}
    \cup {{"telephone", "snils"}, {"height", "snils"}, {"university", "address"},
          {"telephone", "worldview"}, Fields}

\* the valid records, and the first with the fields of an InvalidSet invalid
StringRecords ==
    {[f \in Fields |-> IF f \in B THEN InvalidValue[f] ELSE ValidRecord[f]] :
        B \in InvalidSets} \cup {OtherValidRecord}

\* records with a null: alone, or behind an invalid telephone
NullRecords ==
    {[ValidRecord EXCEPT ![f] = None] : f \in {"telephone", "worldview"}}
    \cup {[ValidRecord EXCEPT !["telephone"] = InvalidValue["telephone"], !["snils"] = None]}

\* records that lack a key
DefectiveRecords ==
    {[f \in Fields \ {g} |-> ValidRecord[f]] : g \in {"telephone", "address"}}

Records == StringRecords \cup NullRecords \cup DefectiveRecords

Batches == UNION {[1..n -> Records] : n \in 0..MaxBatch}

\* lists of reasons for show_summary called on its own; "bogus" is no key of
\* errors_count
ReasonNames == {"telephone", "address", "bogus"}

ReasonLists == UNION {[1..n -> ReasonNames] : n \in 0..MaxReasons}

ReasonListLists == UNION {[1..n -> ReasonLists] : n \in 0..MaxReasons}

----------------------------------------------------------------------------
(* The script: val = Validator(data); res = val.parse();
   show_summary(res[0], output_file); save_in_json(res[1], 'valid_data.txt') *)

NoCall == arg = None /\ ret = Return(FALSE)

Init ==
    /\ pc = "init"
    /\ data \in Batches
    /\ ei = 0
    /\ entries = <<>>
    /\ illegal_entries = <<>>
    /\ legal_entries = <<>>
    /\ idx = 0
    /\ illkeys = <<>>
    /\ result = <<>>
    /\ ri = 1
    /\ rj = 0
    /\ all_errors_count = 0
    /\ errors_count = ZeroCounts
    /\ summary_out = NotWritten
    /\ dump_out = NotWritten
    /\ raised = "none"
    /\ NoCall

\* Validator.__init__: one iteration of its loop
ConstructEntry ==
    /\ pc = "init"
    /\ ei < Len(data)
    /\ LET r == append_entry(entries, data[ei + 1])
       IN  IF r.raised # "none"
           THEN /\ pc' = "aborted"
                /\ raised' = r.raised
                /\ UNCHANGED <<ei, entries>>
           ELSE /\ entries' = r.val
                /\ ei' = ei + 1
                /\ UNCHANGED <<pc, raised>>
    /\ UNCHANGED <<data, illegal_entries, legal_entries, idx, illkeys, result, ri,
                   rj, all_errors_count, errors_count, summary_out, dump_out,
                   arg, ret>>

\* Validator.__init__ returns and parse is entered
EnterParse ==
    /\ pc = "init"
    /\ ei = Len(data)
    /\ pc' = "parse"
    /\ illegal_entries' = <<>>
    /\ legal_entries' = <<>>
    /\ idx' = 0
    /\ UNCHANGED <<data, ei, entries, illkeys, result, ri, rj, all_errors_count,
                   errors_count, summary_out, dump_out, raised, arg, ret>>

\* parse: one iteration of its loop
ParseStep ==
    /\ pc = "parse"
    /\ idx < Len(entries)
    /\ LET i == entries[idx + 1]
           r == parse_entry(i)
       IN  IF r.raised # "none"
           THEN /\ pc' = "aborted"
                /\ raised' = r.raised
                /\ UNCHANGED <<idx, illkeys, illegal_entries, legal_entries>>
           ELSE /\ illkeys' = r.val
                /\ idx' = idx + 1
                /\ illegal_entries' =
                       parse_append(illegal_entries, legal_entries, r.val, i).illegal
                /\ legal_entries' =
                       parse_append(illegal_entries, legal_entries, r.val, i).legal
                /\ UNCHANGED <<pc, raised>>
    /\ UNCHANGED <<data, ei, entries, result, ri, rj, all_errors_count, errors_count,
                   summary_out, dump_out, arg, ret>>

\* parse returns (illegal_entries, legal_entries); show_summary is called
\* with res[0] and sets its counters
ParseReturn ==
    /\ pc = "parse"
    /\ idx = Len(entries)
    /\ pc' = "summary"
    /\ result' = illegal_entries
    /\ ri' = 1
    /\ rj' = 0
    /\ all_errors_count' = 0
    /\ errors_count' = ZeroCounts
    /\ UNCHANGED <<data, ei, entries, illegal_entries, legal_entries, idx, illkeys,
                   summary_out, dump_out, raised, arg, ret>>

\* show_summary: one iteration of the inner loop; errors_count[j] raises
\* KeyError for a j that is no key of it
TallyStep ==
    /\ pc = "summary"
    /\ ri <= Len(result)
    /\ rj < Len(result[ri])
    /\ LET j == result[ri][rj + 1]
       IN  IF j \notin DOMAIN errors_count
           THEN /\ pc' = "aborted"
                /\ raised' = "KeyError"
                /\ UNCHANGED <<rj, all_errors_count, errors_count>>
           ELSE /\ errors_count' = tally(errors_count, all_errors_count, j).counts
                /\ all_errors_count' = tally(errors_count, all_errors_count, j).total
                /\ rj' = rj + 1
                /\ UNCHANGED <<pc, raised>>
    /\ UNCHANGED <<data, ei, entries, illegal_entries, legal_entries, idx, illkeys,
                   result, ri, summary_out, dump_out, arg, ret>>

\* show_summary: the inner loop is exhausted, the outer loop moves on
TallyNext ==
    /\ pc = "summary"
    /\ ri <= Len(result)
    /\ rj = Len(result[ri])
    /\ ri' = ri + 1
    /\ rj' = 0
    /\ UNCHANGED <<pc, data, ei, entries, illegal_entries, legal_entries, idx, illkeys,
                   result, all_errors_count, errors_count, summary_out, dump_out,
                   raised, arg, ret>>

\* show_summary: the loops are done, the summary is printed or written
WriteSummary ==
    /\ pc = "summary"
    /\ ri > Len(result)
    /\ summary_out' = SummaryText(all_errors_count, errors_count)
    /\ pc' = "summarized"
    /\ UNCHANGED <<data, ei, entries, illegal_entries, legal_entries, idx, illkeys,
                   result, ri, rj, all_errors_count, errors_count, dump_out,
                   raised, arg, ret>>

\* save_in_json(res[1], 'valid_data.txt')
SaveInJson ==
    /\ pc = "summarized"
    /\ dump_out' = [written |-> TRUE,
                    blocks |-> [k \in 1..Len(legal_entries) |-> Block(legal_entries[k])]]
    /\ pc' = "done"
    /\ UNCHANGED <<data, ei, entries, illegal_entries, legal_entries, idx, illkeys,
                   result, ri, rj, all_errors_count, errors_count, summary_out,
                   raised, arg, ret>>

Next ==
    \/ ConstructEntry
    \/ EnterParse
    \/ ParseStep
    \/ ParseReturn
    \/ TallyStep
    \/ TallyNext
    \/ WriteSummary
    \/ SaveInJson

Spec == Init /\ [][Next]_vars

----------------------------------------------------------------------------
(* show_summary called on its own, with any list of lists of reasons *)

NoBatch ==
    /\ data = <<>>
    /\ ei = 0
    /\ entries = <<>>
    /\ illegal_entries = <<>>
    /\ legal_entries = <<>>
    /\ idx = 0
    /\ illkeys = <<>>
    /\ dump_out = NotWritten
    /\ raised = "none"

NoSummary ==
    /\ result = <<>>
    /\ ri = 1
    /\ rj = 0
    /\ all_errors_count = 0
    /\ errors_count = ZeroCounts
    /\ summary_out = NotWritten

InitSummary ==
    /\ pc = "summary"
    /\ result \in ReasonListLists
    /\ ri = 1
    /\ rj = 0
    /\ all_errors_count = 0
    /\ errors_count = ZeroCounts
    /\ summary_out = NotWritten
    /\ NoBatch
    /\ NoCall

NextSummary ==
    \/ TallyStep
    \/ TallyNext
    \/ WriteSummary

SpecSummary == InitSummary /\ [][NextSummary]_vars

----------------------------------------------------------------------------
(* A validator called on its own *)

\* '1', Arabic-Indic five, 'x', newline, space
SnilsAlphabet == {49, 1637, 120, 10, 32}

\* strings of '1' of every length, with up to two characters replaced
SnilsInputs ==
    {Str([i \in 1..n |-> IF i = p THEN a ELSE IF i = q THEN b ELSE 49]) :
        n \in 0..MaxSnilsLen, p \in 1..MaxSnilsLen, q \in 1..MaxSnilsLen,
        a \in SnilsAlphabet, b \in SnilsAlphabet}

\* '0', '1', '2', '9', Arabic-Indic two, '-', '+', space, '_', '.'
WorkAlphabet == {48, 49, 50, 57, 1634, 45, 43, 32, 95, 46}

WorkInputs == {Str(s) : s \in UNION {[1..n -> WorkAlphabet] : n \in 0..MaxWorkLen}}

\* '0', '1', '2', '9', '.', '-', space, 'x'
HeightAlphabet == {48, 49, 50, 57, 46, 45, 32, 120}

\* every short string, and "1.2" and "2.0" followed by a run of '0' or of '9'
\* and one more digit
HeightInputs ==
    {Str(s) : s \in UNION {[1..n -> HeightAlphabet] : n \in 0..MaxHeightLen}}
    \cup {Str(head \o [i \in 1..k |-> pad] \o <<last>>) :
            head \in {<<49, 46, 50>>, <<50, 46, 48>>, <<50, 46, 49>>},
            k \in 0..MaxPad, pad \in {48, 57}, last \in {48, 49, 55, 57}}

InitCall(inputs) ==
    /\ pc = "call"
    /\ arg \in inputs
    /\ ret = Return(FALSE)
    /\ NoBatch
    /\ NoSummary

Called(r) ==
    /\ pc = "call"
    /\ ret' = r
    /\ pc' = "return"
    /\ UNCHANGED <<data, ei, entries, illegal_entries, legal_entries, idx, illkeys,
                   result, ri, rj, all_errors_count, errors_count, summary_out,
                   dump_out, raised, arg>>

CallSnils == Called(check_snils(arg))

CallWorkExperience == Called(check_work_experience(arg))

CallHeight == Called(check_height(arg))

InitSnils == InitCall(SnilsInputs)

InitWork == InitCall(WorkInputs)

InitHeight == InitCall(HeightInputs)

SpecSnils == InitSnils /\ [][CallSnils]_vars

SpecWork == InitWork /\ [][CallWorkExperience]_vars

SpecHeight == InitHeight /\ [][CallHeight]_vars

----------------------------------------------------------------------------
(* What the claims speak of *)

\* positions in CheckOrder of the fields of e whose validator returns False
Failing(e) ==
    {k \in 1..Len(CheckOrder) : check(CheckOrder[k], e[CheckOrder[k]]) = Return(FALSE)}

\* the list of reasons of a record: empty when no validator fails, else the
\* name of the earliest field whose validator fails
Reasons(e) ==
    LET failing == Failing(e)
    IN  IF failing = {} THEN <<>>
        ELSE <<CheckOrder[CHOOSE k \in failing : \A m \in failing : k <= m]>>

\* the lists of reasons of the first n records of a list
RECURSIVE ReasonsOfFirst(_, _)
ReasonsOfFirst(es, n) ==
    IF n = 0 THEN <<>> ELSE Append(ReasonsOfFirst(es, n - 1), Reasons(es[n]))

AllStrings(e) == \A f \in Fields : e[f].kind = "str"

IsComplete(dic) == Fields \subseteq DOMAIN dic

Defective == {k \in 1..Len(data) : ~IsComplete(data[k])}

ParseReturned == pc \in {"summary", "summarized", "done"}

RECURSIVE SumOver(_, _)
SumOver(counts, k) ==
    IF k = 0 THEN 0 ELSE counts[FieldOrder[k]] + SumOver(counts, k - 1)

C2_CountsAddUp ==
    /\ Len(illegal_entries) + Len(legal_entries) = idx
    /\ ParseReturned => Len(illegal_entries) + Len(legal_entries) = Len(data)

C2_Witness ==
    /\ pc = "done"
    /\ Len(data) = 2
    /\ Len(illegal_entries) = 1
    /\ Len(legal_entries) = 1

\* C3: the valid records are the classified records that pass every check,
\* in input order, and the invalid outcomes are the reasons of the classified
\* records that fail one, in input order; once parse has returned the
\* classified records are the input records.
C3_OrderPreserved ==
    /\ LET reasons == ReasonsOfFirst(entries, idx)
           IsLegal(k) == reasons[k] = <<>>
           IsIllegal(k) == reasons[k] # <<>>
           positions == [k \in 1..idx |-> k]
           good == SelectSeq(positions, IsLegal)
           bad == SelectSeq(positions, IsIllegal)
       IN  /\ legal_entries = [k \in 1..Len(good) |-> entries[good[k]]]
           /\ illegal_entries = [k \in 1..Len(bad) |-> reasons[bad[k]]]
    /\ ParseReturned => idx = Len(data) /\ \A k \in 1..Len(data) : entries[k] = data[k]

C3_Witness ==
    /\ pc = "done"
    /\ legal_entries = <<OtherValidRecord, ValidRecord>>

\* C4: a batch with a record that lacks a key is never classified: the run
\* stays in Validator.__init__ before the first such record or has ended
\* there with KeyError, no record is classified and neither output is written.
C4_DefectiveBatchAborts ==
    Defective # {} =>
        /\ pc \in {"init", "aborted"}
        /\ \A k \in Defective : ei < k
        /\ pc = "aborted" => raised = "KeyError" /\ (ei + 1) \in Defective
        /\ idx = 0
        /\ illegal_entries = <<>>
        /\ legal_entries = <<>>
        /\ ~summary_out.written
        /\ ~dump_out.written

C4_Witness ==
    /\ pc = "aborted"
    /\ raised = "KeyError"
    /\ Len(data) = 2
    /\ entries = <<ValidRecord>>

\* C5: classifying a record whose nine fields are strings never raises: no
\* ValueError ever ends the run, a run that ends in parse ended on a record
\* with a field that is no string, and a classified record of strings is the
\* last element of exactly one of the two lists.
C5_StringsNeverRaise ==
    /\ raised # "ValueError"
    /\ (pc = "aborted" /\ raised # "KeyError") => ~AllStrings(entries[idx + 1])
    /\ (idx >= 1 /\ AllStrings(entries[idx])) =>
          /\ Len(illegal_entries) + Len(legal_entries) = idx
          /\ IF illkeys = <<>>
             THEN /\ legal_entries # <<>>
                  /\ legal_entries[Len(legal_entries)] = entries[idx]
             ELSE /\ illegal_entries # <<>>
                  /\ illegal_entries[Len(illegal_entries)] = illkeys
          /\ (float(entries[idx]["height"]).raised = "ValueError"
                => check_height(entries[idx]["height"]) = Return(FALSE))
          /\ (int(entries[idx]["work_experience"]).raised = "ValueError"
                => check_work_experience(entries[idx]["work_experience"]) = Return(FALSE))

C5_Witness ==
    /\ idx >= 1
    /\ float(entries[idx]["height"]).raised = "ValueError"
    /\ illkeys = <<"height">>
    /\ pc = "done"

\* C6: the summary written for a batch reports, for each field, the number
\* of input records whose earliest failing field it is, and as total the
\* number of invalid input records.
C6_SummaryMatchesBatch ==
    summary_out.written =>
        LET reasons == ReasonsOfFirst(data, Len(data))
        IN  /\ summary_out.total = Cardinality({k \in 1..Len(data) : reasons[k] # <<>>})
            /\ Len(summary_out.lines) = Len(FieldOrder)
            /\ \A n \in 1..Len(FieldOrder) :
                  /\ summary_out.lines[n].key = FieldOrder[n]
                  /\ summary_out.lines[n].value =
                        Cardinality({k \in 1..Len(data) : reasons[k] = <<FieldOrder[n]>>})

C6_Witness ==
    /\ pc = "done"
    /\ Len(data) = 1
    /\ Failing(data[1]) = {1}
    /\ summary_out.total = 1
    /\ \A n \in 1..Len(FieldOrder) :
          summary_out.lines[n].value = IF FieldOrder[n] = "telephone" THEN 1 ELSE 0

\* C7: at every step of show_summary's tally the nine per-field counts sum to
\* the total error count, and also in the summary it writes.
C7_CountsSumToTotal ==
    /\ SumOver(errors_count, Len(FieldOrder)) = all_errors_count
    /\ summary_out.written =>
          summary_out.total =
              SumOver([f \in Fields |->
                          summary_out.lines[CHOOSE n \in 1..Len(FieldOrder) :
                                                FieldOrder[n] = f].value],
                      Len(FieldOrder))

C7_Witness ==
    /\ pc = "summarized"
    /\ all_errors_count = 3
    /\ errors_count["telephone"] = 2
    /\ errors_count["address"] = 1

\* C8: check_snils returns true exactly for the strings of 11 digits.
C8_ElevenDigitsExactly ==
    pc = "return" =>
        ret = Return(Len(arg.chars) = 11 /\ \A i \in 1..Len(arg.chars) : IsDigit(arg.chars[i]))

StrictlyBetween(d) ==
    /\ ~d.neg
    /\ DecCmp(d, 1, <<2>>) > 0
    /\ DecCmp(d, 2, <<1>>) < 0

\* C10: check_height returns true exactly for the strings that read as a
\* decimal h with 1.20 < h < 2.10.
C10_HeightStrictlyBetween ==
    pc = "return" =>
        ret = Return(float(arg).raised = "none" /\ StrictlyBetween(float(arg).val))

=============================================================================
